---- MODULE Spec2Model ----
(***************************************************************************)
(* PWM audio playback engine of src/audio.py (MicroPython, RP2040).        *)
(*                                                                         *)
(* Seven specifications share this module:                                 *)
(*   SpecCalc    the downsample planner _calc_ds, applied to every rate    *)
(*               0..MaxRate;                                               *)
(*   SpecDecode  the four PCM decoders, applied to raw buffers whose       *)
(*               frames are drawn from ProbeFrames;                        *)
(*   Spec        the two entry points play_wav and play_notes as state     *)
(*               machines over an abstract WAV file (its header fields and *)
(*               byte counts, not its sample bytes), the two PWM outputs   *)
(*               and the file handle;                                      *)
(*   SpecOut     one call of _output, write pair by write pair, against a  *)
(*               microsecond clock that wraps at TICKS_PERIOD;             *)
(*   SpecFade    _fade_out_ds applied to the last chunk of a note;         *)
(*   SpecVol     calls of set_volume and get_volume, and the read of the   *)
(*               global by a playback call;                                *)
(*   SpecLive    play_wav and _output again, each under the fairness its   *)
(*               execution has: the interpreter keeps running the call,    *)
(*               and the microsecond clock keeps advancing.                *)
(*                                                                         *)
(* Python's // is floor division, and so is TLA+'s \div.  x / 1000 is a    *)
(* float division: int(x / 1000) is modelled with the two float widths a   *)
(* MicroPython build can have (see max_bytes).  A read of a file returns   *)
(* what was asked for unless the file ends first.  KeyboardInterrupt is    *)
(* modelled where the code handles it, inside the two try blocks.          *)
(***************************************************************************)
EXTENDS Integers, Sequences, FiniteSets, TLC

VARIABLES
    calc,       \* SpecCalc: [rate, done, plan]
    dec,        \* SpecDecode: [kind, raw, n, vol, buf_l, buf_r, done]
    pc,         \* Spec: the position of the call in play_wav / play_notes
    args,       \* the call and its arguments
    fh,         \* the file handle f: open or not, bytes consumed, what is left
    hdr,        \* what the header scan and the planner set
    st,         \* the streaming loop's locals and the pending exception
    pwm_l,      \* the left duty output (GP18)
    pwm_r,      \* the right duty output (GP19)
    result,     \* what the caller observes once the call is over
    outp,       \* SpecOut: the arguments and locals of a call of _output
    fade,       \* SpecFade: the arguments and the result of _fade_out_ds
    _volume,    \* the module global _volume
    vcall       \* SpecVol: the last call on the volume and what it returned

mainvars == <<pc, args, fh, hdr, st, pwm_l, pwm_r, result>>
purevars == <<outp, fade, _volume, vcall>>
vars == <<calc, dec, pc, args, fh, hdr, st, pwm_l, pwm_r, result,
          outp, fade, _volume, vcall>>

(***************************************************************************)
(* Program constants (src/audio.py:20-25).                                 *)
(***************************************************************************)
_CHUNK == 2048
_MAX_RATE == 22050

(***************************************************************************)
(* Bounds of the model.                                                    *)
(***************************************************************************)
MaxRate == 48000        \* SpecCalc plans every source rate 0..MaxRate
MaxDecFrames == 2       \* SpecDecode decodes 1..MaxDecFrames frames
MaxNotes == 2           \* Spec: notes per play_notes call

(***************************************************************************)
(* _calc_ds (src/audio.py:42-48).                                          *)
(***************************************************************************)
RECURSIVE calc_ds_loop_ge(_, _)
calc_ds_loop_ge(sample_rate, ds) ==
    IF (sample_rate \div (ds + 1)) >= 8000 /\ sample_rate >= _MAX_RATE * ds
    THEN calc_ds_loop_ge(sample_rate, ds + 1)
    ELSE ds

RECURSIVE calc_ds_loop_ne(_, _)
calc_ds_loop_ne(sample_rate, ds) ==
    IF (sample_rate \div (ds + 1)) >= 8000 /\ sample_rate # _MAX_RATE * ds
    THEN calc_ds_loop_ne(sample_rate, ds + 1)
    ELSE ds

\* the while loop of lines 44-46, entered with ds = 1
RECURSIVE calc_ds_loop(_, _)
calc_ds_loop(sample_rate, ds) ==
    IF (sample_rate \div (ds + 1)) >= 8000 /\ sample_rate > _MAX_RATE * ds
    THEN calc_ds_loop(sample_rate, ds + 1)
    ELSE ds

calc_period_us_scaled_late(ds, sample_rate) ==
    (1000000 \div sample_rate) * ds

\* line 47, for sample_rate # 0
calc_period_us(ds, sample_rate) ==
    (1000000 * ds) \div sample_rate

\* the call: a plan, or the ZeroDivisionError line 47 raises for rate 0
_calc_ds(sample_rate) ==
    LET ds == calc_ds_loop(sample_rate, 1) IN
    IF sample_rate = 0
    THEN [ok |-> FALSE, exc |-> "ZeroDivisionError", ds |-> ds, period_us |-> 0]
    ELSE [ok |-> TRUE, exc |-> "none", ds |-> ds,
          period_us |-> calc_period_us(ds, sample_rate)]

(***************************************************************************)
(* The decoders (src/audio.py:277-318).  raw is a function on 0..len-1 of  *)
(* bytes, a duty buffer a function on 0..capacity-1.  A buffer element     *)
(* holds the value the code computes for it.                               *)
(***************************************************************************)
scale_trunc(val, vol) ==
    IF val * vol >= 0 THEN (val * vol) \div 10 ELSE -((-(val * vol)) \div 10)

\* val = (val * vol) // 10
scale(val, vol) == (val * vol) \div 10

signed16_gt(val) == IF val > 32768 THEN val - 65536 ELSE val

\* if val >= 32768: val -= 65536
signed16(val) == IF val >= 32768 THEN val - 65536 ELSE val

\* raw[off] | (raw[off + 1] << 8)
le16(raw, off) == raw[off] + raw[off + 1] * 256

_decode_mono_16(raw, buf, n, vol) ==
    [i \in DOMAIN buf |->
        IF i < n
        THEN scale(signed16(le16(raw, 2 * i)), vol) + 32768
        ELSE buf[i]]

_decode_mono_8(raw, buf, n, vol) ==
    [i \in DOMAIN buf |->
        IF i < n
        THEN (scale(raw[i] - 128, vol) + 128) * 256
        ELSE buf[i]]

\* <<buf_l, buf_r>> after the call
_decode_stereo_16(raw, buf_l, buf_r, n, vol) ==
    << [i \in DOMAIN buf_l |->
          IF i < n
          THEN scale(signed16(le16(raw, 4 * i)), vol) + 32768
          ELSE buf_l[i]],
       [i \in DOMAIN buf_r |->
          IF i < n
          THEN scale(signed16(le16(raw, 4 * i + 2)), vol) + 32768
          ELSE buf_r[i]] >>

_decode_stereo_8(raw, buf_l, buf_r, n, vol) ==
    << [i \in DOMAIN buf_l |->
          IF i < n
          THEN (scale(raw[2 * i] - 128, vol) + 128) * 256
          ELSE buf_l[i]],
       [i \in DOMAIN buf_r |->
          IF i < n
          THEN (scale(raw[2 * i + 1] - 128, vol) + 128) * 256
          ELSE buf_r[i]] >>

\* bytes of raw one frame takes in each decoder (the offsets above)
DecWidth(kind) ==
    CASE kind = "mono_16" -> 2
      [] kind = "mono_8" -> 1
      [] kind = "stereo_16" -> 4
      [] kind = "stereo_8" -> 2

(***************************************************************************)
(* The WAV file as the code sees it: the 12-byte prefix, the sub-chunks    *)
(* in file order, a partial sub-chunk header of `tail` bytes (< 8) after   *)
(* the last sub-chunk of a file that holds no data chunk, and, behind the  *)
(* data header, `avail` bytes of samples (fewer than the data chunk        *)
(* declares in a file cut short).  A chunk's len is the number of body     *)
(* bytes f.read(sz) returns: sz, or fewer when the file ends inside it.    *)
(***************************************************************************)
Min(a, b) == IF a <= b THEN a ELSE b

Prefix(len, riff, wave) == [len |-> len, riff |-> riff, wave |-> wave]
GoodPrefix == Prefix(12, TRUE, TRUE)

Chunk(tag, sz, len, afmt, channels, rate, align, bits) ==
    [tag |-> tag, sz |-> sz, len |-> len, afmt |-> afmt, channels |-> channels,
     rate |-> rate, align |-> align, bits |-> bits]

\* a 'fmt ' chunk of sz bytes; a field the chunk is too short to hold is absent (0)
FmtChunk(sz, afmt, channels, rate, bits) ==
    Chunk("fmt ", sz, sz,
          IF sz >= 2 THEN afmt ELSE 0,
          IF sz >= 4 THEN channels ELSE 0,
          IF sz >= 8 THEN rate ELSE 0,
          IF sz >= 14 THEN (bits \div 8) * channels ELSE 0,
          IF sz >= 16 THEN bits ELSE 0)
DataChunk(sz) == Chunk("data", sz, 0, 0, 0, 0, 0, 0)
ListChunk == Chunk("LIST", 6, 6, 0, 0, 0, 0, 0)

MkFile(prefix, chunks, tail, avail) ==
    [prefix |-> prefix, chunks |-> chunks, tail |-> tail, avail |-> avail]
NoFile == MkFile(Prefix(0, FALSE, FALSE), <<>>, 0, 0)

(***************************************************************************)
(* The files play_wav is given.                                            *)
(***************************************************************************)
FmtSizes == {2, 16}
FormatCodes == {1, 3}
ChannelCounts == {0, 1, 2, 3}
Rates == {0, 8000, 44100, 48000}
BitDepths == {4, 8, 16, 24}
\* <<bytes the data chunk declares, bytes of it the file holds>>
DataShapes == {<<0, 0>>, <<3, 3>>, <<3, 0>>, <<5, 2>>, <<2050, 2050>>,
               <<2050, 1025>>, <<2050, 2048>>, <<4100, 4100>>, <<4100, 2049>>}
Durations == {0, 3, 30}

FmtChunks ==
    {FmtChunk(sz, a, c, r, b) :
        sz \in FmtSizes, a \in FormatCodes, c \in ChannelCounts,
        r \in Rates, b \in BitDepths}

WavFiles ==
    \* a format chunk, then data, with or without a chunk to skip in front
    {MkFile(GoodPrefix, <<f, DataChunk(d[1])>>, 0, d[2]) :
        f \in FmtChunks, d \in DataShapes}
    \cup {MkFile(GoodPrefix, <<ListChunk, f, DataChunk(d[1])>>, 0, d[2]) :
        f \in FmtChunks, d \in DataShapes}
    \* no format chunk: the defaults of lines 64-66 stand
    \cup {MkFile(GoodPrefix, <<DataChunk(d[1])>>, 0, d[2]) : d \in DataShapes}
    \* no data chunk: the file ends after a sub-chunk, or inside a header
    \cup {MkFile(GoodPrefix, <<f>>, t, 0) : f \in FmtChunks, t \in {0, 5}}
    \cup {MkFile(GoodPrefix, <<f, ListChunk>>, t, 0) : f \in FmtChunks, t \in {0, 5}}
    \cup {MkFile(GoodPrefix, <<>>, t, 0) : t \in {0, 5}}
    \* a bad prefix in front of an otherwise playable file
    \cup {MkFile(p, <<FmtChunk(16, 1, 1, 44100, 16), DataChunk(2050)>>, 0, 2050) :
        p \in {Prefix(12, FALSE, TRUE), Prefix(12, TRUE, FALSE)}}
    \cup {MkFile(Prefix(4, TRUE, FALSE), <<>>, 0, 0)}

(***************************************************************************)
(* A duty output: whether machine.PWM made it, the last duty value written *)
(* ("silence" is 32768, "sample" a decoded value, "zero" the 0 of the      *)
(* teardown), whether a decoded value was ever written, the last two       *)
(* operations on it, and how often the teardown's duty_u16(0) and deinit() *)
(* ran on it.                                                              *)
(***************************************************************************)
NoPwm ==
    [made |-> FALSE, duty |-> "none", played |-> FALSE, last |-> "none",
     prev |-> "none", zeros |-> 0, deinits |-> 0]

PwmOp(p, op) == [p EXCEPT !.prev = p.last, !.last = op]

\* machine.PWM(machine.Pin(..)); .freq(_PWM_FREQ); .duty_u16(_SILENCE)
pwm_setup(p) ==
    [PwmOp(PwmOp([p EXCEPT !.made = TRUE], "create"), "silence")
        EXCEPT !.duty = "silence"]

\* .duty_u16(_SILENCE) of a rest
pwm_silence(p) == [PwmOp(p, "silence") EXCEPT !.duty = "silence"]

\* count (>= 0) writes of decoded samples
pwm_samples(p, count) ==
    IF count = 0 THEN p
    ELSE IF count = 1
    THEN [PwmOp(p, "sample") EXCEPT !.duty = "sample", !.played = TRUE]
    ELSE [PwmOp(PwmOp(p, "sample"), "sample")
            EXCEPT !.duty = "sample", !.played = TRUE]

pwm_teardown_no_deinit(p) ==
    [PwmOp(p, "zero") EXCEPT !.duty = "zero", !.zeros = @ + 1]

pwm_teardown_no_zero(p) ==
    [PwmOp(p, "deinit") EXCEPT !.deinits = @ + 1]

\* the finally block: .duty_u16(0), then .deinit()
pwm_teardown(p) ==
    [PwmOp([PwmOp(p, "zero") EXCEPT !.duty = "zero", !.zeros = @ + 1], "deinit")
        EXCEPT !.deinits = @ + 1]

(***************************************************************************)
(* The state before a call, and the state of a specification that makes    *)
(* no call.                                                                *)
(***************************************************************************)
NoResult == [kind |-> "none", value |-> "none", exc |-> "none"]
Returned == [kind |-> "return", value |-> "None", exc |-> "none"]
Raised(e) == [kind |-> "raise", value |-> "none", exc |-> e]

ClosedHandle == [open |-> FALSE, opens |-> 0, closes |-> 0, pos |-> 0, ci |-> 1, left |-> 0]
NoHdr ==
    [channels |-> 0, sample_rate |-> 0, bits |-> 0, frame_bytes |-> 0,
     data_bytes |-> 0, stereo |-> FALSE, ds |-> 0, period_us |-> 0,
     fault |-> "none"]
NoSt ==
    [remaining |-> 0, got |-> 0, n |-> 0, max_frames |-> 0, kind |-> "none",
     exc |-> "none", interrupted |-> FALSE, note_i |-> 1,
     data_read |-> 0, fade_len |-> 0, emitted |-> FALSE, faded |-> FALSE,
     cut |-> FALSE]

Called(a) ==
    /\ pc = "idle"
    /\ args = a
    /\ fh = ClosedHandle
    /\ hdr = NoHdr
    /\ st = NoSt
    /\ pwm_l = NoPwm
    /\ pwm_r = NoPwm
    /\ result = NoResult

NoArgs == [call |-> "none", file |-> NoFile, duration_ms |-> 0, quiet |-> FALSE, notes |-> <<>>]
MainIdle == Called(NoArgs)

(***************************************************************************)
(* SpecCalc: _calc_ds applied to each rate.                                *)
(***************************************************************************)
\* no plan yet
NoPlan == [ok |-> FALSE, exc |-> "none", ds |-> 0, period_us |-> 0]
CalcIdle ==
    calc = [rate |-> 0, done |-> FALSE, plan |-> NoPlan, again |-> FALSE,
            plan2 |-> NoPlan]
DecIdle ==
    dec = [kind |-> "none", raw |-> <<>>, n |-> 0, vol |-> 0,
           buf_l |-> <<>>, buf_r |-> <<>>, done |-> FALSE]

OutIdle ==
    outp = [n |-> 0, step |-> 1, period_us |-> 0, buf_l |-> <<>>, buf_r |-> <<>>,
            mono |-> TRUE, t0 |-> 0, t |-> 0, i |-> 0, elapsed |-> 0,
            polled |-> FALSE, log |-> <<>>, at |-> "idle"]
FadeIdle ==
    fade = [buf |-> <<>>, n |-> 0, fade_len |-> 0, ds |-> 1, before |-> <<>>,
            done |-> FALSE]
\* line 28: _volume = 7
VolIdle ==
    /\ _volume = 7
    /\ vcall = [op |-> "none", arg |-> 0, ret |-> 0, calls |-> 0, sets |-> 0,
                last_set |-> 0, vol |-> 7]
PureIdle == OutIdle /\ FadeIdle /\ VolIdle

\* the rates MaxRate, MaxRate - 1, ..., 0
InitCalc ==
    /\ \E r \in 0..MaxRate :
          calc = [rate |-> MaxRate - r, done |-> FALSE, plan |-> NoPlan,
                  again |-> FALSE, plan2 |-> NoPlan]
    /\ DecIdle
    /\ MainIdle
    /\ PureIdle

CalcCall ==
    /\ ~calc.done
    /\ calc' = [calc EXCEPT !.done = TRUE, !.plan = _calc_ds(calc.rate)]
    /\ UNCHANGED <<dec, mainvars, purevars>>

\* a second call with the same rate
CalcAgain ==
    /\ calc.done /\ ~calc.again
    /\ calc' = [calc EXCEPT !.again = TRUE, !.plan2 = _calc_ds(calc.rate)]
    /\ UNCHANGED <<dec, mainvars, purevars>>

NextCalc == CalcCall \/ CalcAgain

SpecCalc == InitCalc /\ [][NextCalc]_vars

(***************************************************************************)
(* SpecDecode: each decoder applied to n frames, one of which (the probe,  *)
(* at frame index k) is drawn from the frame sets below and the others     *)
(* hold the filler byte 85.                                                *)
(***************************************************************************)
Volumes == 0..10
Bytes8 == 0..255
EdgeBytes8 == {0, 1, 127, 128, 129, 255}
LoBytes == {0, 1, 246, 255}
HiBytes == {0, 127, 128, 255}
\* the probe frame's bytes, as a sequence
Samples16 == {<<lo, hi>> : lo \in LoBytes, hi \in HiBytes}
ProbeFrames(kind) ==
    CASE kind = "mono_16" -> {<<lo, hi>> : lo \in Bytes8, hi \in HiBytes}
      [] kind = "mono_8" -> {<<b>> : b \in Bytes8}
      [] kind = "stereo_16" -> {l \o r : l \in Samples16, r \in Samples16}
      [] kind = "stereo_8" -> {<<l, r>> : l \in Bytes8, r \in EdgeBytes8}

DecKinds == {"mono_16", "mono_8", "stereo_16", "stereo_8"}

MkRaw(kind, n, k, frame) ==
    LET w == DecWidth(kind) IN
    [j \in 0..(n * w - 1) |->
        IF j \div w = k THEN frame[(j % w) + 1] ELSE 85]

ZeroBuf(cap) == [i \in 0..(cap - 1) |-> 0]

InitDecode ==
    /\ CalcIdle
    /\ MainIdle
    /\ PureIdle
    /\ \E kind \in DecKinds, n \in 1..MaxDecFrames, vol \in Volumes :
         \E k \in 0..(n - 1), frame \in ProbeFrames(kind) :
            dec = [kind |-> kind, raw |-> MkRaw(kind, n, k, frame), n |-> n,
                   vol |-> vol, buf_l |-> ZeroBuf(n), buf_r |-> ZeroBuf(n),
                   done |-> FALSE]

DecodeMono16 ==
    /\ ~dec.done /\ dec.kind = "mono_16"
    /\ LET b == _decode_mono_16(dec.raw, dec.buf_l, dec.n, dec.vol) IN
       dec' = [dec EXCEPT !.done = TRUE, !.buf_l = b, !.buf_r = b]
    /\ UNCHANGED <<calc, mainvars, purevars>>

DecodeMono8 ==
    /\ ~dec.done /\ dec.kind = "mono_8"
    /\ LET b == _decode_mono_8(dec.raw, dec.buf_l, dec.n, dec.vol) IN
       dec' = [dec EXCEPT !.done = TRUE, !.buf_l = b, !.buf_r = b]
    /\ UNCHANGED <<calc, mainvars, purevars>>

DecodeStereo16 ==
    /\ ~dec.done /\ dec.kind = "stereo_16"
    /\ LET b == _decode_stereo_16(dec.raw, dec.buf_l, dec.buf_r, dec.n, dec.vol) IN
       dec' = [dec EXCEPT !.done = TRUE, !.buf_l = b[1], !.buf_r = b[2]]
    /\ UNCHANGED <<calc, mainvars, purevars>>

DecodeStereo8 ==
    /\ ~dec.done /\ dec.kind = "stereo_8"
    /\ LET b == _decode_stereo_8(dec.raw, dec.buf_l, dec.buf_r, dec.n, dec.vol) IN
       dec' = [dec EXCEPT !.done = TRUE, !.buf_l = b[1], !.buf_r = b[2]]
    /\ UNCHANGED <<calc, mainvars, purevars>>

NextDecode == DecodeMono16 \/ DecodeMono8 \/ DecodeStereo16 \/ DecodeStereo8

SpecDecode == InitDecode /\ [][NextDecode]_vars

(***************************************************************************)
(* Helpers shared by play_wav and play_notes.                              *)
(***************************************************************************)
Opened(h, file) ==
    [h EXCEPT !.open = TRUE, !.opens = @ + 1, !.pos = 0, !.ci = 1,
              !.left = file.avail]
Closed(h) == [h EXCEPT !.open = FALSE, !.closes = @ + 1]
Consumed(h, k) == [h EXCEPT !.pos = @ + k]

prefix_rejected_no_wave(riff) == riff.len < 12 \/ ~riff.riff

\* len(riff) < 12 or riff[:4] != b"RIFF" or riff[8:] != b"WAVE"
prefix_rejected(riff) == riff.len < 12 \/ ~riff.riff \/ ~riff.wave

chunk_reads_through_data(c) == 8 + (IF c.tag = "data" THEN c.sz ELSE c.len)

\* the bytes the scan consumes for one sub-chunk: the 8-byte header and, but
\* for a 'data' chunk, the body f.read(sz) returns
chunk_reads(c) == IF c.tag = "data" THEN 8 ELSE 8 + c.len

\* what a chunk's emission leaves in the loop's record: a chunk with a frame
\* to emit is the last one emitted, faded or not
emitted_chunk(s) ==
    IF s.n >= 1
    THEN [s EXCEPT !.emitted = TRUE, !.faded = (s.fade_len > 0)]
    ELSE s

\* struct.unpack_from(fmt, buf, off) of a field `width` bytes wide raises
\* when the buffer is too short for it
Unpackable(c, off, width) == off + width <= c.len

\* what f.readinto(raw, to_read) returns with `left` bytes left in the file:
\* a file read fills the request unless the file ends first
readinto(to_read, left) == Min(to_read, left)

remaining_kept(remaining, got) == remaining

\* lines 130, 232: remaining -= got
remaining_after(remaining, got) == remaining - got

\* the spacing of the single-precision floats around x >= 1: the least power
\* of two u with x / u below 2^24 (a float carries 24 significant bits)
RECURSIVE float_ulp(_, _)
float_ulp(x, u) == IF x \div u < 16777216 THEN u ELSE float_ulp(x, 2 * u)

\* q units of size u plus a rest of r out of `whole`, rounded to the nearest
\* unit, a tie to the even one
round_half_even(q, r, whole) ==
    IF 2 * r > whole \/ (2 * r = whole /\ q % 2 = 1) THEN q + 1 ELSE q

\* the integer x >= 0 converted to a single-precision float
float32(x) ==
    LET u == float_ulp(x, 1) IN u * round_half_even(x \div u, x % u, u)

\* the single-precision floats per unit around k >= 8192: the greatest power
\* of two d with k * d below 2^24
RECURSIVE float_steps(_, _)
float_steps(k, d) == IF 2 * k * d < 16777216 THEN float_steps(k, 2 * d) ELSE d

\* int(x / 1000) in single precision, x >= 0: x and 1000 are converted, the
\* quotient is rounded to the nearest float and int() truncates it.  Below
\* 8192 the floats are less than 1/1000 apart, and no quotient of an integer
\* by 1000 rounds up to the next integer.
int_div_1000_single(x) ==
    LET y == float32(x)
        k == y \div 1000
        r == y % 1000
    IN  IF k < 8192 THEN k
        ELSE LET d == float_steps(k, 1)
                 m == round_half_even(k * d + (r * d) \div 1000, (r * d) % 1000, 1000)
             IN  m \div d

\* int(x / 1000) in double precision: exact for the x of this model (< 2^31)
int_div_1000_double(x) == x \div 1000

\* lines 96, 223: int(sample_rate * frame_bytes * duration_ms / 1000).  The
\* product is an exact integer; the division is a float division, and the
\* width of a float is fixed by the build of the interpreter (single
\* precision on the RP2040 port, double precision where it is configured
\* so): the values either build computes.
max_bytes(sample_rate, frame_bytes, duration_ms) ==
    {int_div_1000_double(sample_rate * frame_bytes * duration_ms),
     int_div_1000_single(sample_rate * frame_bytes * duration_ms)}

\* the decoder the stereo / bits tests of play_wav pick
decoder_for(stereo, bits) ==
    IF stereo
    THEN (IF bits = 16 THEN "stereo_16" ELSE "stereo_8")
    ELSE (IF bits = 16 THEN "mono_16" ELSE "mono_8")

\* a decode of n frames raises IndexError when an index leaves raw (raw_len
\* bytes) or a duty buffer (capacity elements)
decode_in_bounds(kind, n, raw_len, capacity) ==
    n * DecWidth(kind) <= raw_len /\ n <= capacity

\* the write pairs _output makes for n frames at step ds: i = 0, ds, ... < n
output_writes(n, ds) == (n + ds - 1) \div ds

\* lines 240-241: fl = min(fade_len, out_n), fade_len being 80
fade_len_for(n, ds) == Min(80, output_writes(n, ds))

(***************************************************************************)
(* play_wav(path, duration_ms, quiet)  (src/audio.py:51-157).              *)
(***************************************************************************)
\* an exit inside the with block before the try: the file is closed, the
\* outputs are left as they are
WavLeave(h, res) ==
    /\ fh' = Closed(h)
    /\ result' = res
    /\ pc' = "done"

\* lines 57-66: open, read the prefix, reject or set the defaults
W_Open ==
    /\ pc = "idle" /\ args.call = "play_wav"
    /\ LET riff == args.file.prefix
           h == Consumed(Opened(fh, args.file), riff.len)
       IN  IF prefix_rejected(riff)
           THEN /\ WavLeave(h, Returned)
                /\ hdr' = [hdr EXCEPT !.fault = "magic"]
           ELSE /\ fh' = h
                /\ hdr' = [hdr EXCEPT !.channels = 1, !.sample_rate = 44100,
                                      !.bits = 16]
                /\ pc' = "scan"
                /\ UNCHANGED result
    /\ UNCHANGED <<args, st, pwm_l, pwm_r, calc, dec, purevars>>

\* lines 69-72: fewer than 8 bytes of a sub-chunk header are left
W_ScanEOF ==
    /\ pc = "scan" /\ fh.ci > Len(args.file.chunks)
    /\ WavLeave(Consumed(fh, args.file.tail), Returned)
    /\ hdr' = [hdr EXCEPT !.fault = "truncated"]
    /\ UNCHANGED <<args, st, pwm_l, pwm_r, calc, dec, purevars>>

\* lines 75-83: a 'fmt ' chunk
W_ScanFmt ==
    /\ pc = "scan" /\ fh.ci <= Len(args.file.chunks)
    /\ LET c == args.file.chunks[fh.ci]
           h == [Consumed(fh, chunk_reads(c)) EXCEPT !.ci = @ + 1]
       IN  /\ c.tag = "fmt "
           /\ IF ~Unpackable(c, 0, 2)
              THEN WavLeave(h, Raised("ValueError")) /\ UNCHANGED hdr
              ELSE IF c.afmt # 1
              THEN /\ WavLeave(h, Returned)
                   /\ hdr' = [hdr EXCEPT !.fault = "format"]
              ELSE IF ~(Unpackable(c, 2, 2) /\ Unpackable(c, 4, 4)
                        /\ Unpackable(c, 14, 2))
              THEN WavLeave(h, Raised("ValueError")) /\ UNCHANGED hdr
              ELSE /\ fh' = h
                   /\ hdr' = [hdr EXCEPT !.channels = c.channels,
                                         !.sample_rate = c.rate,
                                         !.bits = c.bits]
                   /\ UNCHANGED <<pc, result>>
    /\ UNCHANGED <<args, st, pwm_l, pwm_r, calc, dec, purevars>>

\* lines 84-86: the 'data' chunk ends the scan; its body is not read
W_ScanData ==
    /\ pc = "scan" /\ fh.ci <= Len(args.file.chunks)
    /\ LET c == args.file.chunks[fh.ci] IN
       /\ c.tag = "data"
       /\ fh' = [Consumed(fh, chunk_reads(c)) EXCEPT !.ci = @ + 1]
       /\ hdr' = [hdr EXCEPT !.data_bytes = c.sz]
    /\ pc' = "plan"
    /\ UNCHANGED <<args, st, pwm_l, pwm_r, result, calc, dec, purevars>>

\* lines 87-88: any other chunk is skipped
W_ScanSkip ==
    /\ pc = "scan" /\ fh.ci <= Len(args.file.chunks)
    /\ LET c == args.file.chunks[fh.ci] IN
       /\ c.tag \notin {"fmt ", "data"}
       /\ fh' = [Consumed(fh, chunk_reads(c)) EXCEPT !.ci = @ + 1]
    /\ UNCHANGED <<pc, args, hdr, st, pwm_l, pwm_r, result, calc, dec, purevars>>

\* lines 90-105: frame size, decimation plan, duration cap, the banner
W_Plan ==
    /\ pc = "plan"
    /\ \E cap \in max_bytes(hdr.sample_rate, (hdr.bits \div 8) * hdr.channels,
                            args.duration_ms) :
       LET frame_bytes == (hdr.bits \div 8) * hdr.channels
           plan == _calc_ds(hdr.sample_rate)
           data_bytes == IF args.duration_ms > 0
                         THEN Min(hdr.data_bytes, cap)
                         ELSE hdr.data_bytes
       IN  IF ~plan.ok
           THEN WavLeave(fh, Raised(plan.exc)) /\ UNCHANGED hdr
           ELSE IF ~args.quiet /\ hdr.sample_rate * frame_bytes = 0
           THEN WavLeave(fh, Raised("ZeroDivisionError")) /\ UNCHANGED hdr
           ELSE /\ hdr' = [hdr EXCEPT !.frame_bytes = frame_bytes,
                                      !.stereo = (hdr.channels >= 2),
                                      !.ds = plan.ds,
                                      !.period_us = plan.period_us,
                                      !.data_bytes = data_bytes]
                /\ pc' = "pwm"
                /\ UNCHANGED <<fh, result>>
    /\ UNCHANGED <<args, st, pwm_l, pwm_r, calc, dec, purevars>>

\* lines 107-113: both outputs are made and set to the silence midpoint
W_SetupPwm ==
    /\ pc = "pwm"
    /\ pwm_l' = pwm_setup(pwm_l)
    /\ pwm_r' = pwm_setup(pwm_r)
    /\ pc' = "alloc"
    /\ UNCHANGED <<args, fh, hdr, st, result, calc, dec, purevars>>

\* lines 115-122: the buffers; _CHUNK // frame_bytes raises for frame size 0
W_Alloc ==
    /\ pc = "alloc"
    /\ IF hdr.frame_bytes = 0
       THEN WavLeave(fh, Raised("ZeroDivisionError")) /\ UNCHANGED st
       ELSE /\ st' = [st EXCEPT !.max_frames = _CHUNK \div hdr.frame_bytes,
                                !.remaining = hdr.data_bytes]
            /\ pc' = "loop"
            /\ UNCHANGED <<fh, result>>
    /\ UNCHANGED <<args, hdr, pwm_l, pwm_r, calc, dec, purevars>>

\* line 125: the loop ends when nothing remains
W_LoopExit ==
    /\ pc = "loop" /\ st.remaining <= 0
    /\ pc' = "finally"
    /\ UNCHANGED <<args, fh, hdr, st, pwm_l, pwm_r, result, calc, dec, purevars>>

\* lines 126-131: one read; an empty read breaks out of the loop
W_Read ==
    /\ pc = "loop" /\ st.remaining > 0
    /\ LET to_read == Min(_CHUNK, st.remaining)
           got == readinto(to_read, fh.left)
       IN  IF got = 0
           THEN /\ pc' = "finally"
                /\ st' = [st EXCEPT !.got = 0]
                /\ UNCHANGED fh
           ELSE /\ pc' = "decode"
                /\ fh' = [Consumed(fh, got) EXCEPT !.left = @ - got]
                /\ st' = [st EXCEPT !.got = got,
                                    !.remaining = remaining_after(@, got),
                                    !.n = got \div hdr.frame_bytes,
                                    !.data_read = @ + got]
    /\ UNCHANGED <<args, hdr, pwm_l, pwm_r, result, calc, dec, purevars>>

\* line 127: the storage read raises
W_ReadError ==
    /\ pc = "loop" /\ st.remaining > 0
    /\ st' = [st EXCEPT !.exc = "OSError"]
    /\ pc' = "finally"
    /\ UNCHANGED <<args, fh, hdr, pwm_l, pwm_r, result, calc, dec, purevars>>

\* lines 133-143: the decoder is picked by stereo and bits
W_Decode ==
    /\ pc = "decode"
    /\ LET kind == decoder_for(hdr.stereo, hdr.bits) IN
       IF decode_in_bounds(kind, st.n, _CHUNK, st.max_frames)
       THEN /\ st' = [st EXCEPT !.kind = kind, !.fade_len = 0]
            /\ pc' = "output"
       ELSE /\ st' = [st EXCEPT !.kind = kind, !.exc = "IndexError"]
            /\ pc' = "finally"
    /\ UNCHANGED <<args, fh, hdr, pwm_l, pwm_r, result, calc, dec, purevars>>

\* line 146: every ds-th decoded frame goes to both outputs
W_Output ==
    /\ pc = "output"
    /\ pwm_l' = pwm_samples(pwm_l, output_writes(st.n, hdr.ds))
    /\ pwm_r' = pwm_samples(pwm_r, output_writes(st.n, hdr.ds))
    /\ st' = emitted_chunk(st)
    /\ pc' = "loop"
    /\ UNCHANGED <<args, fh, hdr, result, calc, dec, purevars>>

\* lines 148-149: KeyboardInterrupt during a read or a decode is caught
W_Interrupt ==
    /\ pc \in {"loop", "decode"}
    /\ st' = [st EXCEPT !.interrupted = TRUE]
    /\ pc' = "finally"
    /\ UNCHANGED <<args, fh, hdr, pwm_l, pwm_r, result, calc, dec, purevars>>

\* lines 148-149: KeyboardInterrupt inside _output, after k write pairs
W_InterruptOutput ==
    /\ pc = "output"
    /\ \E k \in 0..Min(1, output_writes(st.n, hdr.ds)) :
          /\ pwm_l' = pwm_samples(pwm_l, k)
          /\ pwm_r' = pwm_samples(pwm_r, k)
          /\ st' = [st EXCEPT !.interrupted = TRUE,
                              !.cut = (1 <= k /\ k < output_writes(st.n, hdr.ds))]
    /\ pc' = "finally"
    /\ UNCHANGED <<args, fh, hdr, result, calc, dec, purevars>>

\* lines 150-157: the teardown, the end of the with block, the return
W_Finally ==
    /\ pc = "finally"
    /\ pwm_l' = pwm_teardown(pwm_l)
    /\ pwm_r' = pwm_teardown(pwm_r)
    /\ fh' = Closed(fh)
    /\ result' = IF st.exc = "none" THEN Returned ELSE Raised(st.exc)
    /\ pc' = "done"
    /\ UNCHANGED <<args, hdr, st, calc, dec, purevars>>

NextWav ==
    \/ W_Open \/ W_ScanEOF \/ W_ScanFmt \/ W_ScanData \/ W_ScanSkip
    \/ W_Plan \/ W_SetupPwm \/ W_Alloc
    \/ W_LoopExit \/ W_Read \/ W_ReadError \/ W_Decode \/ W_Output
    \/ W_Interrupt \/ W_InterruptOutput \/ W_Finally

\* a long recording played for a long time: 8-bit mono at 11025 Hz, 257
\* chunks of data, 47559 ms asked for
LongCalls ==
    {<<MkFile(GoodPrefix, <<FmtChunk(16, 1, 1, 11025, 8), DataChunk(526336)>>,
              0, 526336),
       47559>>}

InitWav ==
    /\ CalcIdle /\ DecIdle /\ PureIdle
    /\ \E c \in (WavFiles \X Durations) \cup LongCalls, q \in BOOLEAN :
          Called([call |-> "play_wav", file |-> c[1], duration_ms |-> c[2],
                  quiet |-> q, notes |-> <<>>])

(***************************************************************************)
(* play_notes(notes, sd_mount)  (src/audio.py:160-255).  A note is a rest, *)
(* the name of a file that cannot be opened, or a file; ms is its          *)
(* duration.                                                               *)
(***************************************************************************)
Note(kind, file, ms) == [kind |-> kind, file |-> file, ms |-> ms]

\* a note file: format chunk (format code, channels, rate, bits), then data
NoteFile(prefix, afmt, channels, rate, bits, shape) ==
    MkFile(prefix, <<FmtChunk(16, afmt, channels, rate, bits), DataChunk(shape[1])>>,
           0, shape[2])

NoteInputs ==
    {Note("rest", NoFile, 400), Note("missing", NoFile, 400)}
    \* 16-bit mono, as the melody's note files are
    \cup {Note("file", NoteFile(GoodPrefix, 1, 1, 44100, 16, <<2050, 2050>>), ms) :
            ms \in {1, 400}}
    \cup {Note("file", NoteFile(GoodPrefix, 1, 1, 44100, 16, d), 400) :
            d \in {<<3, 3>>, <<2050, 1025>>}}
    \* 8-bit mono, 16-bit stereo, a frame size of 0, a rate of 0
    \cup {Note("file", NoteFile(GoodPrefix, 1, c[1], c[2], c[3], <<2050, 2050>>), 400) :
            c \in {<<1, 44100, 8>>, <<2, 44100, 16>>, <<0, 44100, 16>>, <<1, 0, 16>>}}
    \* not RIFF and not PCM, a format chunk too short, no data chunk
    \cup {Note("file", NoteFile(Prefix(12, FALSE, FALSE), 3, 1, 44100, 16, <<3, 3>>), 400),
          Note("file", MkFile(GoodPrefix, <<FmtChunk(2, 1, 0, 0, 0), DataChunk(3)>>, 0, 3), 400),
          Note("file", MkFile(GoodPrefix, <<ListChunk>>, 5, 0), 400)}

RECURSIVE SeqsUpTo(_, _)
SeqsUpTo(S, k) ==
    IF k = 0 THEN {<<>>}
    ELSE LET shorter == SeqsUpTo(S, k - 1) IN
         shorter \cup {Append(q, x) : q \in shorter, x \in S}

CurNote == args.notes[st.note_i]

\* an exception other than KeyboardInterrupt inside the try: on to the finally
NotesFail(e) ==
    /\ st' = [st EXCEPT !.exc = e]
    /\ pc' = "nfinally"

\* line 247 and the next turn of the for loop
NotesNext(s) ==
    /\ fh' = Closed(fh)
    /\ st' = [s EXCEPT !.note_i = @ + 1]
    /\ pc' = "note"

\* lines 168-181: the outputs are made once, the buffers allocated
N_Setup ==
    /\ pc = "idle" /\ args.call = "play_notes"
    /\ pwm_l' = pwm_setup(pwm_l)
    /\ pwm_r' = pwm_setup(pwm_r)
    /\ st' = [st EXCEPT !.max_frames = _CHUNK \div 2, !.note_i = 1]
    /\ pc' = "note"
    /\ UNCHANGED <<args, fh, hdr, result, calc, dec, purevars>>

\* line 184: the notes are exhausted
N_NotesDone ==
    /\ pc = "note" /\ st.note_i > Len(args.notes)
    /\ pc' = "nfinally"
    /\ UNCHANGED <<args, fh, hdr, st, pwm_l, pwm_r, result, calc, dec, purevars>>

\* lines 185-190: a rest holds the silence midpoint for ms
N_Rest ==
    /\ pc = "note" /\ st.note_i <= Len(args.notes)
    /\ CurNote.kind = "rest"
    /\ pwm_l' = pwm_silence(pwm_l)
    /\ pwm_r' = pwm_silence(pwm_r)
    /\ st' = [st EXCEPT !.note_i = @ + 1]
    /\ UNCHANGED <<pc, args, fh, hdr, result, calc, dec, purevars>>

\* lines 193-197: the file cannot be opened; the note is slept through
N_OpenFail ==
    /\ pc = "note" /\ st.note_i <= Len(args.notes)
    /\ CurNote.kind = "missing"
    /\ st' = [st EXCEPT !.note_i = @ + 1]
    /\ UNCHANGED <<pc, args, fh, hdr, pwm_l, pwm_r, result, calc, dec, purevars>>

\* lines 192-203: open, read 12 bytes (unchecked), set the defaults
N_Open ==
    /\ pc = "note" /\ st.note_i <= Len(args.notes)
    /\ CurNote.kind = "file"
    /\ fh' = Consumed(Opened(fh, CurNote.file), CurNote.file.prefix.len)
    /\ hdr' = [NoHdr EXCEPT !.sample_rate = 44100, !.frame_bytes = 2,
                            !.data_bytes = 0]
    /\ st' = [st EXCEPT !.data_read = 0, !.fade_len = 0, !.emitted = FALSE,
                        !.faded = FALSE]
    /\ pc' = "nscan"
    /\ UNCHANGED <<args, pwm_l, pwm_r, result, calc, dec, purevars>>

\* lines 205-207: no sub-chunk header left; data_bytes stays 0
N_ScanEOF ==
    /\ pc = "nscan" /\ fh.ci > Len(CurNote.file.chunks)
    /\ fh' = Consumed(fh, CurNote.file.tail)
    /\ pc' = "nplan"
    /\ UNCHANGED <<args, hdr, st, pwm_l, pwm_r, result, calc, dec, purevars>>

\* lines 210-213: a 'fmt ' chunk gives the rate and the frame size
N_ScanFmt ==
    /\ pc = "nscan" /\ fh.ci <= Len(CurNote.file.chunks)
    /\ LET c == CurNote.file.chunks[fh.ci] IN
       /\ c.tag = "fmt "
       /\ fh' = [Consumed(fh, chunk_reads(c)) EXCEPT !.ci = @ + 1]
       /\ IF Unpackable(c, 4, 4) /\ Unpackable(c, 12, 2)
          THEN /\ hdr' = [hdr EXCEPT !.sample_rate = c.rate,
                                     !.frame_bytes = c.align]
               /\ UNCHANGED <<pc, st>>
          ELSE NotesFail("ValueError") /\ UNCHANGED hdr
    /\ UNCHANGED <<args, pwm_l, pwm_r, result, calc, dec, purevars>>

\* lines 214-216
N_ScanData ==
    /\ pc = "nscan" /\ fh.ci <= Len(CurNote.file.chunks)
    /\ LET c == CurNote.file.chunks[fh.ci] IN
       /\ c.tag = "data"
       /\ fh' = [Consumed(fh, chunk_reads(c)) EXCEPT !.ci = @ + 1]
       /\ hdr' = [hdr EXCEPT !.data_bytes = c.sz]
    /\ pc' = "nplan"
    /\ UNCHANGED <<args, st, pwm_l, pwm_r, result, calc, dec, purevars>>

\* lines 217-218
N_ScanSkip ==
    /\ pc = "nscan" /\ fh.ci <= Len(CurNote.file.chunks)
    /\ LET c == CurNote.file.chunks[fh.ci] IN
       /\ c.tag \notin {"fmt ", "data"}
       /\ fh' = [Consumed(fh, chunk_reads(c)) EXCEPT !.ci = @ + 1]
    /\ UNCHANGED <<pc, args, hdr, st, pwm_l, pwm_r, result, calc, dec, purevars>>

\* lines 220-225: the plan and the byte budget of the note
N_Plan ==
    /\ pc = "nplan"
    /\ \E cap \in max_bytes(hdr.sample_rate, hdr.frame_bytes, CurNote.ms) :
       LET plan == _calc_ds(hdr.sample_rate)
       IN  IF ~plan.ok
           THEN NotesFail(plan.exc) /\ UNCHANGED hdr
           ELSE /\ hdr' = [hdr EXCEPT !.ds = plan.ds, !.period_us = plan.period_us]
                /\ st' = [st EXCEPT !.remaining = Min(hdr.data_bytes, cap)]
                /\ pc' = "nloop"
    /\ UNCHANGED <<args, fh, pwm_l, pwm_r, result, calc, dec, purevars>>

\* line 227, then line 247
N_LoopExit ==
    /\ pc = "nloop" /\ st.remaining <= 0
    /\ NotesNext(st)
    /\ UNCHANGED <<args, hdr, pwm_l, pwm_r, result, calc, dec, purevars>>

\* lines 228-233: one read; an empty read ends the note
N_Read ==
    /\ pc = "nloop" /\ st.remaining > 0
    /\ LET to_read == Min(_CHUNK, st.remaining)
           got == readinto(to_read, fh.left)
       IN  IF got = 0
           THEN NotesNext([st EXCEPT !.got = 0])
           ELSE /\ fh' = [Consumed(fh, got) EXCEPT !.left = @ - got]
                /\ IF hdr.frame_bytes = 0
                   THEN NotesFail("ZeroDivisionError")
                   ELSE /\ pc' = "ndecode"
                        /\ st' = [st EXCEPT
                                    !.got = got,
                                    !.remaining = remaining_after(@, got),
                                    !.n = got \div hdr.frame_bytes,
                                    !.data_read = @ + got]
    /\ UNCHANGED <<args, hdr, pwm_l, pwm_r, result, calc, dec, purevars>>

\* line 229: the storage read raises
N_ReadError ==
    /\ pc = "nloop" /\ st.remaining > 0
    /\ NotesFail("OSError")
    /\ UNCHANGED <<args, fh, hdr, pwm_l, pwm_r, result, calc, dec, purevars>>

\* lines 235-243: always _decode_mono_16 into the 1024-element buffer, then
\* the fade when nothing remains of the note
N_Decode ==
    /\ pc = "ndecode"
    /\ IF decode_in_bounds("mono_16", st.n, _CHUNK, st.max_frames)
       THEN /\ st' = [st EXCEPT !.kind = "mono_16",
                                !.fade_len = IF st.remaining <= 0
                                             THEN fade_len_for(st.n, hdr.ds)
                                             ELSE 0]
            /\ pc' = "noutput"
       ELSE /\ st' = [st EXCEPT !.kind = "mono_16", !.exc = "IndexError"]
            /\ pc' = "nfinally"
    /\ UNCHANGED <<args, fh, hdr, pwm_l, pwm_r, result, calc, dec, purevars>>

\* line 245
N_Output ==
    /\ pc = "noutput"
    /\ pwm_l' = pwm_samples(pwm_l, output_writes(st.n, hdr.ds))
    /\ pwm_r' = pwm_samples(pwm_r, output_writes(st.n, hdr.ds))
    /\ st' = emitted_chunk(st)
    /\ pc' = "nloop"
    /\ UNCHANGED <<args, fh, hdr, result, calc, dec, purevars>>

\* lines 249-250: KeyboardInterrupt anywhere in the for loop is swallowed
N_Interrupt ==
    /\ pc \in {"note", "nscan", "nplan", "nloop", "ndecode"}
    /\ st' = [st EXCEPT !.interrupted = TRUE]
    /\ pc' = "nfinally"
    /\ UNCHANGED <<args, fh, hdr, pwm_l, pwm_r, result, calc, dec, purevars>>

\* lines 249-250: KeyboardInterrupt inside _output, after k write pairs
N_InterruptOutput ==
    /\ pc = "noutput"
    /\ \E k \in 0..Min(1, output_writes(st.n, hdr.ds)) :
          /\ pwm_l' = pwm_samples(pwm_l, k)
          /\ pwm_r' = pwm_samples(pwm_r, k)
          /\ st' = [st EXCEPT !.interrupted = TRUE,
                              !.cut = (1 <= k /\ k < output_writes(st.n, hdr.ds))]
    /\ pc' = "nfinally"
    /\ UNCHANGED <<args, fh, hdr, result, calc, dec, purevars>>

\* lines 251-255: the teardown; a file still open stays open
N_Finally ==
    /\ pc = "nfinally"
    /\ pwm_l' = pwm_teardown(pwm_l)
    /\ pwm_r' = pwm_teardown(pwm_r)
    /\ result' = IF st.exc = "none" THEN Returned ELSE Raised(st.exc)
    /\ pc' = "done"
    /\ UNCHANGED <<args, fh, hdr, st, calc, dec, purevars>>

NextNotes ==
    \/ N_Setup \/ N_NotesDone \/ N_Rest \/ N_OpenFail \/ N_Open
    \/ N_ScanEOF \/ N_ScanFmt \/ N_ScanData \/ N_ScanSkip \/ N_Plan
    \/ N_LoopExit \/ N_Read \/ N_ReadError \/ N_Decode \/ N_Output
    \/ N_Interrupt \/ N_InterruptOutput \/ N_Finally

InitNotes ==
    /\ CalcIdle /\ DecIdle /\ PureIdle
    /\ \E notes \in SeqsUpTo(NoteInputs, MaxNotes) :
          Called([call |-> "play_notes", file |-> NoFile, duration_ms |-> 0,
                  quiet |-> TRUE, notes |-> notes])

(***************************************************************************)
(* Spec: one call of play_wav or of play_notes.                            *)
(***************************************************************************)
Init == InitWav \/ InitNotes

Next == NextWav \/ NextNotes

Spec == Init /\ [][Next]_vars

(***************************************************************************)
(* SpecOut: one call of _output (src/audio.py:323-338).  The clock is      *)
(* time.ticks_us(): a counter of microseconds modulo TICKS_PERIOD.  t0 is  *)
(* its value at line 330 and elapsed the microseconds gone by since, as of *)
(* the last read of the clock; between two reads 0..MaxTick microseconds   *)
(* go by.  log lists the duty writes in order: the output, the index read, *)
(* the value written and the microseconds elapsed at the write.            *)
(***************************************************************************)
TICKS_PERIOD == 1073741824      \* 2^30

MaxOutFrames == 4       \* capacity of the duty buffers handed to _output
MaxTick == 2            \* most microseconds between two reads of the clock

ticks_diff_raw(a, b) == a - b

\* time.ticks_diff(a, b): the signed difference modulo TICKS_PERIOD
ticks_diff(a, b) ==
    ((a - b + TICKS_PERIOD \div 2) % TICKS_PERIOD) - TICKS_PERIOD \div 2

\* time.ticks_add(t, delta)
ticks_add(t, delta) == (t + delta) % TICKS_PERIOD

\* time.ticks_us() when `elapsed` microseconds have gone by since it read t0
_ticks(t0, elapsed) == (t0 + elapsed) % TICKS_PERIOD

next_index_unit(i, step) == i + 1

\* line 338: i += step
next_index(i, step) == i + step

OutSteps == 1..3
OutPeriods == {1, 3}
StartTicks == {0, TICKS_PERIOD \div 2 - 2, TICKS_PERIOD - 2}

\* the duty buffers: for a mono source buf_r is buf_l itself
OutBufL == [i \in 0..(MaxOutFrames - 1) |-> 33000 + i]
OutBufR == [i \in 0..(MaxOutFrames - 1) |-> 31000 - i]

InitOut ==
    /\ CalcIdle /\ DecIdle /\ MainIdle /\ FadeIdle /\ VolIdle
    /\ \E n \in 0..MaxOutFrames, step \in OutSteps, period_us \in OutPeriods,
          mono \in BOOLEAN, t0 \in StartTicks :
          outp = [n |-> n, step |-> step, period_us |-> period_us,
                  buf_l |-> OutBufL,
                  buf_r |-> IF mono THEN OutBufL ELSE OutBufR,
                  mono |-> mono, t0 |-> t0, t |-> 0, i |-> 0, elapsed |-> 0,
                  polled |-> FALSE, log |-> <<>>, at |-> "start"]

OutWrite(ch, i, val) == [ch |-> ch, i |-> i, val |-> val, elapsed |-> outp.elapsed]

\* lines 330-331: t = _ticks(); i = 0
O_Start ==
    /\ outp.at = "start"
    /\ outp' = [outp EXCEPT !.t = _ticks(outp.t0, 0), !.i = 0, !.at = "loop"]
    /\ UNCHANGED <<calc, dec, mainvars, fade, _volume, vcall>>

\* lines 332-335: the left write, the right write, the deadline moves on
O_Write ==
    /\ outp.at = "loop" /\ outp.i < outp.n
    /\ outp' = [outp EXCEPT
                  !.log = @ \o << OutWrite("l", outp.i, outp.buf_l[outp.i]),
                                  OutWrite("r", outp.i, outp.buf_r[outp.i]) >>,
                  !.t = ticks_add(outp.t, outp.period_us),
                  !.polled = FALSE,
                  !.at = "wait"]
    /\ UNCHANGED <<calc, dec, mainvars, fade, _volume, vcall>>

\* lines 336-338: one read of the clock; the wait goes on or i moves on
O_PollAfter(d) ==
    /\ outp.at = "wait"
    /\ LET e == outp.elapsed + d IN
       IF ticks_diff(outp.t, _ticks(outp.t0, e)) > 0
       THEN outp' = [outp EXCEPT !.elapsed = e, !.polled = TRUE]
       ELSE outp' = [outp EXCEPT !.elapsed = e, !.polled = FALSE,
                                 !.i = next_index(outp.i, outp.step),
                                 !.at = "loop"]
    /\ UNCHANGED <<calc, dec, mainvars, fade, _volume, vcall>>

O_Poll == \E d \in 0..MaxTick : O_PollAfter(d)

\* line 332: i >= n ends the call
O_Return ==
    /\ outp.at = "loop" /\ outp.i >= outp.n
    /\ outp' = [outp EXCEPT !.at = "done"]
    /\ UNCHANGED <<calc, dec, mainvars, fade, _volume, vcall>>

NextOut == O_Start \/ O_Write \/ O_Poll \/ O_Return

SpecOut == InitOut /\ [][NextOut]_vars

(***************************************************************************)
(* SpecVol: the module global _volume (src/audio.py:27-39): calls of       *)
(* set_volume with integer arguments, calls of get_volume, and the read    *)
(* vol = _volume a playback call makes before it decodes (lines 122, 177). *)
(* vcall holds the last operation, its argument and what it returned, the  *)
(* number of set_volume calls so far and the argument of the last one.     *)
(***************************************************************************)
MaxVolCalls == 3        \* operations on the volume in one behaviour

Max(a, b) == IF a >= b THEN a ELSE b

set_volume_no_floor(v) == Min(10, v)

\* line 34: min(10, max(0, int(v))), v an integer
set_volume(v) == Min(10, Max(0, v))

VolArgs == (-3)..13

InitVol ==
    /\ CalcIdle /\ DecIdle /\ MainIdle /\ OutIdle /\ FadeIdle
    /\ VolIdle

\* lines 31-35
SetVolume ==
    /\ vcall.calls < MaxVolCalls
    /\ \E v \in VolArgs :
          /\ _volume' = set_volume(v)
          /\ vcall' = [vcall EXCEPT !.op = "set_volume", !.arg = v,
                                    !.ret = set_volume(v), !.calls = @ + 1,
                                    !.sets = @ + 1, !.last_set = v]
    /\ UNCHANGED <<calc, dec, mainvars, outp, fade>>

\* lines 38-39
GetVolume ==
    /\ vcall.calls < MaxVolCalls
    /\ vcall' = [vcall EXCEPT !.op = "get_volume", !.arg = 0, !.ret = _volume,
                              !.calls = @ + 1]
    /\ UNCHANGED <<calc, dec, mainvars, outp, fade, _volume>>

\* lines 122 and 177: vol = _volume, the volume the decoders are passed
ReadVolume ==
    /\ vcall.calls < MaxVolCalls
    /\ vcall' = [vcall EXCEPT !.op = "play", !.arg = 0, !.ret = 0,
                              !.calls = @ + 1, !.vol = _volume]
    /\ UNCHANGED <<calc, dec, mainvars, outp, fade, _volume>>

NextVol == SetVolume \/ GetVolume \/ ReadVolume

SpecVol == InitVol /\ [][NextVol]_vars

(***************************************************************************)
(* SpecFade: _fade_out_ds (src/audio.py:258-270) applied to a decoded      *)
(* chunk of n frames with the fade length play_notes computes for it       *)
(* (lines 240-241).                                                        *)
(***************************************************************************)
MaxFadeFrames == 82     \* frames in the chunk handed to _fade_out_ds

fade_scale_from_one(dev, i, fade_len) == (dev * (i + 1)) \div fade_len

\* line 269: dev = (dev * i) // fade_len
fade_scale(dev, i, fade_len) == (dev * i) \div fade_len

\* lines 262 and 264: idx = pos - i * ds, with pos = n - ds
fade_idx(n, ds, i) == (n - ds) - i * ds

\* the turns of the for loop that reach line 267: the loop breaks at the
\* first idx < 0, and idx falls as i grows
fade_steps(n, fade_len, ds) == {i \in 0..(fade_len - 1) : fade_idx(n, ds, i) >= 0}

\* the buffer after the call
_fade_out_ds(buf, n, fade_len, ds) ==
    [j \in DOMAIN buf |->
        IF \E i \in fade_steps(n, fade_len, ds) : fade_idx(n, ds, i) = j
        THEN LET i == CHOOSE k \in fade_steps(n, fade_len, ds) : fade_idx(n, ds, k) = j
             IN  32768 + fade_scale(buf[j] - 32768, i, fade_len)
        ELSE buf[j]]

\* the decoded buffers: constant ones, one for each deviation from centre,
\* and one whose values run over the whole range
FadeDevs == {-32768, -2, -1, 1, 2, 1000, 32767}
FadeBufs(n) ==
    {[j \in 0..(n - 1) |-> 32768 + d] : d \in FadeDevs}
    \cup {[j \in 0..(n - 1) |-> (j * 7919 + 5) % 65536]}

InitFade ==
    /\ CalcIdle /\ DecIdle /\ MainIdle /\ OutIdle /\ VolIdle
    /\ \E n \in 1..MaxFadeFrames, ds \in OutSteps :
         \E buf \in FadeBufs(n) :
            fade = [buf |-> buf, n |-> n, fade_len |-> fade_len_for(n, ds),
                    ds |-> ds, before |-> buf, done |-> FALSE]

\* line 243
FadeCall ==
    /\ ~fade.done /\ fade.fade_len > 0
    /\ fade' = [fade EXCEPT
                  !.buf = _fade_out_ds(fade.buf, fade.n, fade.fade_len, fade.ds),
                  !.done = TRUE]
    /\ UNCHANGED <<calc, dec, mainvars, outp, _volume, vcall>>

NextFade == FadeCall

SpecFade == InitFade /\ [][NextFade]_vars

(***************************************************************************)
(* SpecLive: play_wav (src/audio.py:51-157) and _output (323-338) under    *)
(* fairness.  A behaviour is one call of play_wav, with _output a single   *)
(* step of it, or one call of _output, poll by poll.  The interpreter      *)
(* keeps executing the call it is in; of the reads of the clock in the     *)
(* wait of lines 336-337, some find that time has gone by.                 *)
(***************************************************************************)
\* a read of the clock at least a microsecond after the last one
O_PollAdvancing == \E d \in 1..MaxTick : O_PollAfter(d)

InitLive == InitWav \/ InitOut

NextLive == NextWav \/ NextOut

SpecLive ==
    /\ InitLive /\ [][NextLive]_vars
    /\ WF_vars(NextWav)
    /\ WF_vars(O_Start \/ O_Write \/ O_Return)
    /\ WF_vars(O_PollAdvancing)

(***************************************************************************)
(* Properties of the decoders (SpecDecode).                                *)
(***************************************************************************)
Is16(kind) == kind \in {"mono_16", "stereo_16"}
Chans(kind) == IF kind \in {"stereo_16", "stereo_8"} THEN {0, 1} ELSE {0}

\* the signed deviation from centre of channel ch of frame i, read off the raw bytes
RawDev(d, i, ch) ==
    LET w == DecWidth(d.kind) IN
    IF Is16(d.kind)
    THEN LET lo == d.raw[w * i + 2 * ch]
             hi == d.raw[w * i + 2 * ch + 1]
         IN  IF hi >= 128 THEN lo + 256 * hi - 65536 ELSE lo + 256 * hi
    ELSE d.raw[w * i + ch] - 128

\* the duty value stored for channel ch of frame i
Out(d, i, ch) == IF ch = 0 THEN d.buf_l[i] ELSE d.buf_r[i]

\* the scaled deviation the stored duty value stands for
OutDev(d, i, ch) ==
    IF Is16(d.kind) THEN Out(d, i, ch) - 32768 ELSE (Out(d, i, ch) \div 256) - 128

DecodedFrames == {<<i, ch>> : i \in 0..(dec.n - 1), ch \in Chans(dec.kind)}

\* C6: for each decoder, every raw content and every volume 0..10, each stored
\* duty value lies in 0..65535; at volume 0 it is 32768; a centre-valued sample
\* decodes to 32768 at every volume; at volume 10 a 16-bit sample s gives
\* s + 32768 and an 8-bit byte b gives b * 256.
C6_DecodeRangeAndEndpoints ==
    dec.done =>
        \A f \in DecodedFrames :
            LET d == RawDev(dec, f[1], f[2])
                o == Out(dec, f[1], f[2])
            IN  /\ o \in 0..65535
                /\ (dec.vol = 0 => o = 32768)
                /\ (d = 0 => o = 32768)
                /\ (dec.vol = 10 =>
                        o = IF Is16(dec.kind) THEN d + 32768 ELSE (d + 128) * 256)

\* a full-scale negative 16-bit sample on the right channel reaches duty 0
C6_Witness ==
    /\ dec.done /\ dec.kind = "stereo_16" /\ dec.vol = 10
    /\ \E i \in 0..(dec.n - 1) : RawDev(dec, i, 1) = -32768 /\ dec.buf_r[i] = 0

\* C7 (as amended): the scaled deviation q of a sample with deviation d is
\* floor(d * volume / 10), i.e. 10*q <= d*volume < 10*q + 10, for positive and
\* negative d; the stored value is 32768 + q (16-bit) or (128 + q) << 8 (8-bit).
C7_ScaleIsFloor ==
    dec.done =>
        \A f \in DecodedFrames :
            LET d == RawDev(dec, f[1], f[2])
                o == Out(dec, f[1], f[2])
                q == OutDev(dec, f[1], f[2])
            IN  /\ (~Is16(dec.kind) => o % 256 = 0)
                /\ 10 * q <= d * dec.vol
                /\ d * dec.vol < 10 * q + 10

\* a negative deviation whose product with the volume is no multiple of 10
C7_Witness ==
    /\ dec.done
    /\ \E f \in DecodedFrames :
          /\ RawDev(dec, f[1], f[2]) < 0
          /\ (RawDev(dec, f[1], f[2]) * dec.vol) % 10 # 0

\* C7 (as claimed): the scaled deviation is d * volume / 10 rounded toward zero.
C7_ScaleTruncatesTowardZero ==
    dec.done =>
        \A f \in DecodedFrames :
            LET p == RawDev(dec, f[1], f[2]) * dec.vol
                q == OutDev(dec, f[1], f[2])
            IN  IF p >= 0
                THEN 10 * q <= p /\ p < 10 * q + 10
                ELSE 10 * q - 10 < p /\ p <= 10 * q

(***************************************************************************)
(* Properties of the downsample planner (SpecCalc).                        *)
(***************************************************************************)
\* C9: for every positive rate the period is floor(1000000 * ds / rate):
\* 0 <= 1000000*ds - period_us*rate < rate; and _calc_ds(44100) = (2, 45).
C9_PeriodIsFloor ==
    (calc.done /\ calc.rate > 0) =>
        LET ds == calc.plan.ds
            err == 1000000 * ds - calc.plan.period_us * calc.rate
        IN  /\ calc.plan.ok
            /\ 0 <= err /\ err < calc.rate
            /\ (calc.rate = 44100 => ds = 2 /\ calc.plan.period_us = 45)

C9_Witness ==
    /\ calc.done /\ calc.rate = 44100
    /\ calc.plan.ok /\ calc.plan.ds = 2 /\ calc.plan.period_us = 45

\* C10 (as amended): for a rate of 0 the call raises ZeroDivisionError; for
\* every rate >= 1 it returns a plan whose ds >= 1 is the smallest integer
\* with rate <= 22050 * ds, and the decimated rate rate // ds is >= 8000
\* whenever the rate itself is >= 8000 (below 8000 Hz ds is 1).
C10_SmallestFactorUnderCeiling ==
    calc.done =>
        IF calc.rate = 0
        THEN ~calc.plan.ok /\ calc.plan.exc = "ZeroDivisionError"
        ELSE LET ds == calc.plan.ds IN
             /\ calc.plan.ok
             /\ ds >= 1
             /\ calc.rate <= 22050 * ds
             /\ \A k \in 1..(ds - 1) : calc.rate > 22050 * k
             /\ (calc.rate >= 8000 => calc.rate \div ds >= 8000)
             /\ (calc.rate < 8000 => ds = 1)

\* a rate that needs three-fold decimation
C10_Witness ==
    /\ calc.done /\ calc.plan.ok /\ calc.rate > 2 * 22050 /\ calc.plan.ds = 3

\* C10 (as claimed): for every rate a header can hold the call returns a plan
\* whose ds >= 1 is the smallest integer with 8000 <= rate/ds <= 22050.
C10_FactorKeepsRateInBand ==
    calc.done =>
        LET ds == calc.plan.ds
            InBand(k) == 8000 * k <= calc.rate /\ calc.rate <= 22050 * k
        IN  /\ calc.plan.ok
            /\ ds >= 1
            /\ InBand(ds)
            /\ \A k \in 1..(ds - 1) : ~InBand(k)

\* the rates the plan of each rate is compared with
ProbeRates == {1, 7999, 8000, 16000, 22050, 22051, 44100, 44101, 48000}

\* C19: a second call with the same rate returns the same (ds, period_us);
\* the factor of a rate is no smaller than that of the rate one below it
\* (so the factor never falls as the rate grows over 1..MaxRate), and it
\* is ordered as the rates are against each of ProbeRates.
C19_DeterministicAndMonotone ==
    (calc.done /\ calc.rate >= 1) =>
        /\ (calc.again => calc.plan2 = calc.plan)
        /\ (calc.rate >= 2 => _calc_ds(calc.rate - 1).ds <= calc.plan.ds)
        /\ \A r \in ProbeRates :
              /\ (r <= calc.rate => _calc_ds(r).ds <= calc.plan.ds)
              /\ (calc.rate <= r => calc.plan.ds <= _calc_ds(r).ds)

\* the factor steps from 2 to 3 between 44100 and 44101
C19_Witness ==
    /\ calc.done /\ calc.again /\ calc.rate = 44101
    /\ calc.plan.ds = 3 /\ calc.plan2 = calc.plan
    /\ _calc_ds(44100).ds = 2

(***************************************************************************)
(* Properties of the volume (SpecVol).                                     *)
(***************************************************************************)
\* an integer limited to 0..10
Clamped(v) == IF v < 0 THEN 0 ELSE IF v > 10 THEN 10 ELSE v

\* C18: after any calls of set_volume with integer arguments the global is
\* in 0..10; set_volume(v) stores and returns v limited to 0..10; get_volume
\* returns what the most recent set_volume stored, 7 before any; and the
\* volume a playback call reads for its decoders is in 0..10.
C18_VolumeClamped ==
    /\ _volume \in 0..10
    /\ _volume = (IF vcall.sets = 0 THEN 7 ELSE Clamped(vcall.last_set))
    /\ (vcall.op = "set_volume" =>
          vcall.ret = Clamped(vcall.arg) /\ _volume = vcall.ret)
    /\ (vcall.op = "get_volume" => vcall.ret = _volume)
    /\ vcall.vol \in 0..10
    /\ (vcall.op = "play" => vcall.vol = _volume)

\* a negative argument, then a read of the volume by get_volume and by a call
C18_Witness ==
    /\ vcall.op = "play" /\ vcall.vol = 0
    /\ vcall.sets = 1 /\ vcall.last_set < 0 /\ vcall.calls = 3

(***************************************************************************)
(* Properties of play_wav and play_notes (Spec).                           *)
(***************************************************************************)
\* the file the call is reading
CurFile ==
    IF args.call = "play_wav" THEN args.file
    ELSE IF st.note_i <= Len(args.notes) THEN CurNote.file ELSE NoFile

\* the sub-chunks in front of the first data chunk
HeaderChunks(file) ==
    {i \in 1..Len(file.chunks) :
        \A j \in 1..i : file.chunks[j].tag # "data"}
FmtChunksOf(file) ==
    {file.chunks[i] : i \in {k \in HeaderChunks(file) : file.chunks[k].tag = "fmt "}}

\* an output the teardown ran on: 0 written, then deinit, once each, last of all
TornDown(p) ==
    /\ p.last = "deinit" /\ p.prev = "zero" /\ p.duty = "zero"
    /\ p.zeros = 1 /\ p.deinits = 1

\* C1: on every exit taken after both outputs were made, each output was
\* written duty 0 and then deinit'd, exactly once each, before the call
\* returned or raised; none is left at 32768 or at a played value.
C1_TeardownOnEveryExit ==
    (pc = "done" /\ pwm_l.made /\ pwm_r.made) =>
        TornDown(pwm_l) /\ TornDown(pwm_r)

\* C2: a KeyboardInterrupt inside the streaming loop makes the call return
\* normally, and the last value written to each output is 0.
C2_InterruptReturnsSilenced ==
    (pc = "done" /\ st.interrupted) =>
        /\ result = Returned
        /\ pwm_l.duty = "zero"
        /\ pwm_r.duty = "zero"

\* interrupted after decoded samples had gone out
C2_Witness ==
    /\ pc = "done" /\ st.interrupted
    /\ pwm_l.played /\ pwm_r.played
    /\ st.data_read > _CHUNK

\* the three header faults of C3, read off the file
BadPrefix(file) == file.prefix.len < 12 \/ ~file.prefix.riff \/ ~file.prefix.wave
NonPcmFormat(file) ==
    /\ ~BadPrefix(file)
    /\ \E i \in HeaderChunks(file) :
          /\ file.chunks[i].tag = "fmt "
          /\ file.chunks[i].len >= 2
          /\ file.chunks[i].afmt # 1
          /\ \A j \in 1..(i - 1) : file.chunks[j].tag # "fmt "
NoDataChunk(file) ==
    /\ ~BadPrefix(file)
    /\ \A i \in 1..Len(file.chunks) : file.chunks[i].tag # "data"

\* C3: play_wav on a file with a bad prefix, a non-PCM format code or no data
\* chunk never makes a PWM object, writes no duty value and reads no sample
\* byte; on a bad prefix it reads nothing beyond the prefix.
C3_RejectedBeforeHardware ==
    (args.call = "play_wav"
     /\ (BadPrefix(args.file) \/ NonPcmFormat(args.file) \/ NoDataChunk(args.file))) =>
        /\ ~pwm_l.made /\ ~pwm_r.made
        /\ pwm_l.duty = "none" /\ pwm_r.duty = "none"
        /\ st.data_read = 0
        /\ pc \notin {"pwm", "alloc", "loop", "decode", "output", "finally"}
        /\ (BadPrefix(args.file) => fh.pos <= args.file.prefix.len)
        /\ (pc = "done" =>
              /\ ~fh.open
              /\ (BadPrefix(args.file) => hdr.fault = "magic")
              /\ (NonPcmFormat(args.file) => hdr.fault = "format"))

\* a non-PCM file rejected and closed
C3_Witness ==
    /\ pc = "done" /\ args.call = "play_wav"
    /\ NonPcmFormat(args.file)
    /\ hdr.fault = "format" /\ result = Returned /\ ~pwm_l.made

\* C4: whenever the streaming loop of play_wav or play_notes runs, the file
\* has the RIFF/WAVE prefix, every format chunk of its header declares PCM
\* (code 1) with 8 or 16 bits and 1 or 2 channels, the frame size is 1, 2 or
\* 4, and the decoder run fits the declared bit depth and channel count.
C4_OnlySupportedPcmStreams ==
    (pc \in {"decode", "output", "ndecode", "noutput"}) =>
        /\ ~BadPrefix(CurFile)
        /\ \A c \in FmtChunksOf(CurFile) :
              /\ c.afmt = 1 /\ c.bits \in {8, 16} /\ c.channels \in {1, 2}
              /\ (pc \in {"output", "noutput"} =>
                    /\ Is16(st.kind) = (c.bits = 16)
                    /\ Chans(st.kind) = 0..(c.channels - 1))
        /\ hdr.frame_bytes \in {1, 2, 4}

\* C5: after a header fault the caller observes something else than after a
\* complete playback, which ends in `Returned` (None, no exception).
C5_HeaderFaultReported ==
    (pc = "done" /\ args.call = "play_wav" /\ hdr.fault # "none") =>
        result # Returned

\* C8: a decode reads only the first n * frame_bytes bytes of what the read
\* returned and writes only buf[0 .. n-1], with n within the buffers'
\* capacity; no decode indexes outside raw or a duty buffer.
C8_DecodeStaysInsideChunk ==
    /\ (pc \in {"output", "noutput"} =>
          /\ st.n * DecWidth(st.kind) <= st.n * hdr.frame_bytes
          /\ st.n * hdr.frame_bytes <= st.got
          /\ st.n <= st.max_frames)
    /\ st.exc # "IndexError"

\* C15: when the reading of a note's data stops (budget spent, data region
\* spent, or an empty read), in play_notes and in play_wav with
\* duration_ms > 0, the last chunk emitted for the note was faded.
C15_TruncatedNoteEndsFaded ==
    /\ (args.call = "play_wav" /\ args.duration_ms > 0 /\ pc = "finally"
        /\ st.exc = "none" /\ ~st.interrupted /\ st.emitted) => st.faded
    /\ (args.call = "play_notes" /\ pc = "note" /\ st.emitted) => st.faded

RECURSIVE ScanBytes(_, _)
ScanBytes(chunks, i) ==
    IF i > Len(chunks) THEN 0
    ELSE IF chunks[i].tag = "data" THEN 8
    ELSE 8 + chunks[i].sz + ScanBytes(chunks, i + 1)
HeaderBytes(file) == 12 + ScanBytes(file.chunks, 1)

\* C17: once play_wav's header scan has succeeded, the file position is the
\* 12-byte prefix, plus 8 bytes and the declared size for each sub-chunk in
\* front of the data chunk, plus the 8-byte data header, plus the sample
\* bytes the streaming loop has read; before the loop's first read no byte
\* of the data region is consumed.
C17_HeaderConsumption ==
    (args.call = "play_wav"
     /\ pc \in {"plan", "pwm", "alloc", "loop", "decode", "output", "finally"}) =>
        /\ fh.pos = HeaderBytes(args.file) + st.data_read
        /\ fh.left = args.file.avail - st.data_read
        /\ (pc \in {"plan", "pwm", "alloc"} => st.data_read = 0)

\* a chunk to skip and a format chunk in front of the data: 12 + 14 + 24 + 8
C17_Witness ==
    /\ args.call = "play_wav" /\ pc = "loop" /\ st.data_read = 0
    /\ Len(args.file.chunks) = 3 /\ args.file.chunks[3].sz = 4100
    /\ fh.pos = 58 /\ fh.left = 4100

\* C20: on a stream of 8- or 16-bit, 1- or 2-channel frames, every chunk
\* handed to _output starts at a frame whose index in the data region is a
\* multiple of the decimation factor, so the frames emitted (every ds-th of
\* the chunk, from its first) are those whose index is a multiple of ds.
C20_DecimationAcrossChunks ==
    (pc \in {"output", "noutput"} /\ st.n >= 1 /\ hdr.frame_bytes \in {1, 2, 4}) =>
        (st.data_read - st.got) % (hdr.ds * hdr.frame_bytes) = 0

\* C21: whenever a chunk has been read, in play_wav or in play_notes, the
\* bytes of the data region consumed before it are a multiple of the frame
\* size, so its first frame starts on a frame boundary; and a chunk that is
\* not a whole number of frames (its odd bytes are dropped by got //
\* frame_bytes) is the last of the stream: nothing remains of the budget, or
\* nothing is left of the file.
C21_ChunksFrameAligned ==
    (pc \in {"decode", "output", "ndecode", "noutput"}) =>
        /\ (st.data_read - st.got) % hdr.frame_bytes = 0
        /\ (st.got % hdr.frame_bytes # 0 => st.remaining = 0 \/ fh.left = 0)

\* C22: when a call is over, no file it opened is open: every open has its
\* close, whether the call returned or raised.
C22_NoHandleLeftOpen ==
    (pc = "done") => (~fh.open /\ fh.opens = fh.closes)

(***************************************************************************)
(* Properties of play_wav's termination and byte accounting (SpecLive).    *)
(***************************************************************************)
\* the header scan of play_wav has stopped at a data tag
Scanned ==
    /\ args.call = "play_wav" /\ fh.ci >= 2
    /\ args.file.chunks[fh.ci - 1].tag = "data"

\* the size that data chunk declares
DeclaredBytes == args.file.chunks[fh.ci - 1].sz

\* sample_rate * frame_bytes * duration_ms, once the plan is made
BudgetProduct == hdr.sample_rate * hdr.frame_bytes * args.duration_ms

InStream == args.call = "play_wav" /\ pc \in {"loop", "decode", "output"}

\* the scan ends at a data tag or at the end of the file; the remaining count
\* is never negative and, with the bytes read, makes up the capped size; the
\* bytes read stay within the declared size and, with a duration, within
\* the floor of the budget plus one byte, and within the floor itself when
\* the product is below 2^24
StreamAccounting ==
    (args.call = "play_wav") =>
        /\ (pc \in {"plan", "pwm", "alloc", "loop", "decode", "output", "finally"}
              => Scanned)
        /\ (pc = "done" /\ hdr.fault = "truncated"
              => fh.ci > Len(args.file.chunks))
        /\ st.remaining >= 0 /\ st.data_read >= 0
        /\ (InStream => st.data_read + st.remaining = hdr.data_bytes)
        /\ (Scanned => st.data_read <= DeclaredBytes)
        /\ (args.duration_ms > 0 =>
              /\ st.data_read <= BudgetProduct \div 1000 + 1
              /\ (BudgetProduct < 16777216
                    => st.data_read <= BudgetProduct \div 1000))

\* a step of the streaming loop: the remaining count does not grow and falls
\* by the bytes read; an iteration reads at least one byte, or leaves the loop
StreamStep ==
    InStream =>
        /\ st'.remaining <= st.remaining
        /\ st'.data_read - st.data_read = st.remaining - st'.remaining
        /\ (pc = "loop" =>
              \/ /\ pc' = "decode" /\ st'.got >= 1
                 /\ st.remaining - st'.remaining = st'.got
              \/ /\ pc' = "finally" /\ st'.remaining = st.remaining)

\* C23: every call of play_wav ends with the file closed, and every call of
\* _output returns while the clock advances; the header scan stops at a
\* data tag or at the end of the file; each iteration of the streaming loop
\* reads at least one byte and lowers the remaining count by exactly the
\* bytes read, or leaves the loop; the remaining count never grows and is
\* never negative; the bytes read from the data region never exceed the
\* declared size nor, with duration_ms > 0, max_bytes, which is
\* floor(rate * frame_bytes * duration_ms / 1000) when the product is below
\* 2^24 or floats are double precision, and at most one more otherwise.
C23_TerminatesWithinBudget ==
    /\ []StreamAccounting
    /\ [][StreamStep]_vars
    /\ (args.call = "play_wav" /\ pc = "idle") ~> (pc = "done" /\ ~fh.open)
    /\ (outp.at = "start") ~> (outp.at = "done")

\* a capped call that read its whole budget and ended with the file closed:
\* the budget computed in single precision, one byte above the floor
C23_Witness ==
    /\ args.call = "play_wav" /\ pc = "done" /\ ~fh.open /\ fh.closes = 1
    /\ args.duration_ms > 0 /\ st.remaining = 0 /\ st.exc = "none"
    /\ ~st.interrupted
    /\ st.data_read = BudgetProduct \div 1000 + 1
    /\ st.data_read < DeclaredBytes

\* C23 (as claimed): with duration_ms > 0 the bytes read from the data region
\* never exceed min(declared data size, floor(rate * frame_bytes *
\* duration_ms / 1000)).
C23_ReadsWithinFloorOfBudget ==
    (Scanned /\ args.duration_ms > 0) =>
        /\ st.data_read <= DeclaredBytes
        /\ st.data_read <= BudgetProduct \div 1000

(***************************************************************************)
(* Properties of _output (SpecOut).                                        *)
(***************************************************************************)
\* the indices _output emits of n frames at step `step`
output_indices(n, step) == {i \in 0..(n - 1) : i % step = 0}

\* the write pair (0, 1, 2, ...) that entry j of the log belongs to
PairOf(j) == (j - 1) \div 2

\* C11: the writes go, pair by pair, to the left and then the right output,
\* pair k reading index k * step of buf_l and of buf_r; no index >= n is
\* read; a mono source gives both outputs the same value; and when the call
\* is over the indices written are exactly 0, step, 2*step, ... below n, each
\* once: ceil(n / step) pairs.
C11_OutputIndices ==
    /\ \A j \in 1..Len(outp.log) :
          LET w == outp.log[j] IN
          /\ w.i = PairOf(j) * outp.step
          /\ w.i < outp.n
          /\ w.ch = (IF j % 2 = 1 THEN "l" ELSE "r")
          /\ w.val = (IF w.ch = "l" THEN outp.buf_l[w.i] ELSE outp.buf_r[w.i])
          /\ (outp.mono /\ j % 2 = 0 => w.val = outp.log[j - 1].val)
    /\ (outp.at = "done" =>
          /\ Len(outp.log) = 2 * output_writes(outp.n, outp.step)
          /\ {outp.log[j].i : j \in 1..Len(outp.log)}
                = output_indices(outp.n, outp.step))

\* a stereo call whose n is no multiple of the step
C11_Witness ==
    /\ outp.at = "done" /\ ~outp.mono
    /\ outp.n = 4 /\ outp.step = 3
    /\ Len(outp.log) = 4 /\ outp.log[3].i = 3 /\ outp.log[4].val = outp.buf_r[3]

\* C12: counting the write pairs 0, 1, 2, ... (pair 0 is written at once),
\* pair k >= 1 is written only when at least k * period_us microseconds have
\* gone by since t0; the deadline waited for is t0 + k * period_us modulo
\* TICKS_PERIOD; and a wait that goes on after a read of the clock has read
\* it before the deadline.  All of it whether or not the clock wraps.
C12_DeadlinesAcrossWrap ==
    /\ \A j \in 1..Len(outp.log) :
          outp.log[j].elapsed >= PairOf(j) * outp.period_us
    /\ (outp.at = "wait" =>
          LET k == Len(outp.log) \div 2 IN
          /\ outp.t = _ticks(outp.t0, k * outp.period_us)
          /\ (outp.polled => outp.elapsed < k * outp.period_us))

\* the clock wrapped between two write pairs of one call
C12_Witness ==
    /\ outp.at = "done" /\ Len(outp.log) >= 4
    /\ outp.t0 + outp.log[1].elapsed < TICKS_PERIOD
    /\ outp.t0 + outp.log[Len(outp.log)].elapsed >= TICKS_PERIOD
    /\ outp.period_us = 3

(***************************************************************************)
(* Properties of _fade_out_ds (SpecFade).                                  *)
(***************************************************************************)
Abs(x) == IF x < 0 THEN -x ELSE x

\* the turns of the fade loop that touch a sample, and the indices touched
FadeSteps == fade_steps(fade.n, fade.fade_len, fade.ds)
FadeTouched == {fade_idx(fade.n, fade.ds, i) : i \in FadeSteps}

\* the deviation from centre of sample j before and after the fade
DevBefore(j) == fade.before[j] - 32768
DevAfter(j) == fade.buf[j] - 32768

FadeConstant == \A j \in DOMAIN fade.before : fade.before[j] = fade.before[0]

\* the last index _output emits of the chunk
LastEmitted == fade.ds * ((fade.n - 1) \div fade.ds)

\* C13: the indices the fade touches are the last fade_len indices _output
\* emits of the chunk, i.e. the emitted indices from LastEmitted downward in
\* steps of ds; no index that is not emitted is touched.
C13_FadesTheLastEmitted ==
    fade.done =>
        FadeTouched =
            {j \in output_indices(fade.n, fade.ds) :
                j > LastEmitted - fade.fade_len * fade.ds}

\* C14 (as amended): a touched sample, the i-th counted back from n - ds, has
\* deviation floor(d * i / L) after the fade, d being its deviation before;
\* the sample at i = 0 becomes 32768; a touched value stays in 0..65535 with
\* an absolute deviation no larger than before; an untouched sample keeps its
\* value; on a constant buffer the absolute deviation does not grow toward
\* the end, and the last touched one is strictly smaller than the first
\* touched one (the i-th, i >= 1) exactly when d < 0 or d * i >= L (with
\* d = 1 every touched sample becomes 32768).
C14_FadeEnvelope ==
    fade.done =>
        LET L == fade.fade_len
            idx(i) == fade_idx(fade.n, fade.ds, i)
            first == CHOOSE i \in FadeSteps : \A k \in FadeSteps : k <= i
        IN  /\ \A i \in FadeSteps :
                  LET d == DevBefore(idx(i))
                      q == DevAfter(idx(i))
                  IN  /\ L * q <= d * i /\ d * i < L * q + L
                      /\ fade.buf[idx(i)] \in 0..65535
                      /\ Abs(q) <= Abs(d)
                      /\ (i = 0 => fade.buf[idx(i)] = 32768)
            /\ \A j \in (DOMAIN fade.buf) \ FadeTouched : fade.buf[j] = fade.before[j]
            /\ (FadeConstant =>
                  /\ \A i1, i2 \in FadeSteps :
                        i1 <= i2 => Abs(DevAfter(idx(i1))) <= Abs(DevAfter(idx(i2)))
                  /\ (Cardinality(FadeSteps) >= 2 =>
                        ((DevBefore(0) < 0 \/ DevBefore(0) * first >= L)
                           <=> Abs(DevAfter(idx(0))) < Abs(DevAfter(idx(first))))))

\* a full 80-sample fade of a constant buffer one step below centre
C14_Witness ==
    /\ fade.done /\ fade.fade_len = 80 /\ Cardinality(FadeSteps) = 80
    /\ FadeConstant /\ DevBefore(0) = -1
    /\ fade.buf[fade.n - 1] = 32768 /\ fade.buf[fade.n - 2] = 32767

\* C14 (as claimed): on a constant non-silent buffer faded with L >= 2 the
\* last touched sample's absolute deviation is strictly smaller than the
\* first faded one's.
C14_FadeStrictlyQuieter ==
    (fade.done /\ FadeConstant /\ fade.fade_len >= 2) =>
        /\ FadeSteps # {}
        /\ LET first == CHOOSE i \in FadeSteps : \A k \in FadeSteps : k <= i IN
           Abs(DevAfter(fade_idx(fade.n, fade.ds, 0)))
              < Abs(DevAfter(fade_idx(fade.n, fade.ds, first)))

====
